---- MODULE Spec2Model ----
(***************************************************************************)
(* A model of the webservice crate of GlenDC/edurust:                      *)
(*   - webservice/src/thread.rs : ThreadPool, Worker, Message              *)
(*   - webservice/src/lib.rs    : HTTPServer (add_handle, set_shutdown,    *)
(*                                listen), create_pattern,                 *)
(*                                handle_connection, Display of a response *)
(*                                                                         *)
(* Three specifications share the variables:                               *)
(*   SpecPool   a client creates a ThreadPool, submits jobs, drops it;     *)
(*   SpecServer HTTPServer::listen with its accept loop and executor;      *)
(*   SpecRoute  the route table and handle_connection on one stream.       *)
(*                                                                         *)
(* Job bodies are client closures; they are taken to return (a job that    *)
(* panics or never returns is outside the model).  Under that reading the  *)
(* unwrap()s of thread.rs never meet an Err: the receiver lives as long as *)
(* any worker does, and the sender is dropped only after every join.       *)
(* The jobs of listen are its connection closures: what handle_connection  *)
(* returns to them is drawn from its results over the streams and tables   *)
(* of SpecRoute, and an Err is logged by the closure.                      *)
(***************************************************************************)
EXTENDS Integers, Sequences, FiniteSets, TLC

\* ------------------------------------------------------------------ bounds
\* largest size handed to ThreadPool::new in SpecPool
MaxSize == 2
\* most jobs a client submits to one pool in SpecPool
MaxJobs == 3
\* most connections the listener accepts in SpecServer
MaxConns == 2
\* most values sent on the shutdown channel in SpecServer and SpecMain
MaxSignals == 1
\* most connections the listener accepts in SpecMain
MaxMainConns == 1
\* most calls of add_handle in SpecRoute
MaxHandles == 2

\* ------------------------------------------------------- thread.rs: state
VARIABLES
    pc,            \* position of the thread that owns the pool
    sizeArg,       \* the argument of ThreadPool::new, -1 before the call
    newResult,     \* "none" | "Ok" | "InvalidSize": what ThreadPool::new returned
    workers,       \* ThreadPool.workers: Vec<Worker>, records [id, thread]
    channelMade,   \* whether mpsc::channel() has been called
    channel,       \* the messages sent and not yet received, oldest first
    lockHolder,    \* worker id holding the Mutex around the receiver, or NoWorker
    thread,        \* worker id -> [at, msg]: position of the spawned thread
    sent,          \* number of messages sent so far (numbers the messages)
    jobs,          \* number of calls of ThreadPool::execute so far
    dropI,         \* loop index of the two loops of Drop::drop
    \* history variables (observers; no action reads them in a guard)
    dequeued,      \* the messages received, in the order of their reception
    runs,          \* job -> how many times job() was entered for it
    completed,     \* the jobs whose call has returned
    atDrop         \* [running, queued]: jobs were in flight / waiting when drop began

poolVars == <<pc, sizeArg, newResult, workers, channelMade, channel, lockHolder,
              thread, sent, jobs, dropI, dequeued, runs, completed, atDrop>>

\* ---------------------------------------------------------- lib.rs: state
VARIABLES
    shutdown,      \* HTTPServer.shutdown: "None" | "Some"
    executor,      \* HTTPServer.executor: "None" | "Some" (a custom executor)
    configured,    \* set_shutdown has been called (a shutdown channel exists)
    signal,        \* the () values sent on the shutdown channel and not yet received
    txAlive,       \* the Sender of the shutdown channel has not been dropped
    conns,         \* the connections accepted so far
    listenResult,  \* "none" | "Ok" | "Err": what listen returned
    \* history variables
    received,      \* how many values try_recv took from the shutdown channel
    stopConns,     \* conns when the accept loop was left, -1 before
    failed,        \* a connection job has logged an error of handle_connection
    channelErrors  \* how many times the error of the shutdown channel was logged

srvVars == <<shutdown, executor, configured, signal, txAlive, conns, listenResult,
             received, stopConns, failed, channelErrors>>

VARIABLES
    handles,       \* HTTPServer.handles: HashMap<String, HTTPHandle>, pattern -> handle
    \* history variables
    regs,          \* the calls of add_handle, in order: records [method, path, id]
    conn           \* the run of handle_connection: [handled, stream, order, out]

routeVars == <<handles, regs, conn>>

poolVarsButPc == <<sizeArg, newResult, workers, channelMade, channel, lockHolder,
                   thread, sent, jobs, dropI, dequeued, runs, completed, atDrop>>

NoWorker == -1

\* enum Message { NewJob(Job), Terminate }; seq numbers the sends
NewJob(n) == [type |-> "NewJob", seq |-> n]
Terminate(n) == [type |-> "Terminate", seq |-> n]
NoMsg == [type |-> "None", seq |-> 0]

JobsIn(q) == {q[i].seq : i \in {k \in 1..Len(q) : q[k].type = "NewJob"}}
Running == {thread[w].msg.seq : w \in {v \in DOMAIN thread : thread[v].at = "job"}}

\* ------------------------------------------------------ thread.rs: pool

\* mutant: a channel with room for one message (sync_channel(1)), whose send waits
CanSendBounded(q) == Len(q) < 1

\* mpsc::channel() is unbounded: send never waits for room
CanSend(q) == TRUE

\* mutant: for id in 0..=size
SpawnIdsInclusive(size) == 0..size

\* for id in 0..size { workers.push(Worker::new(id, ..)) }
SpawnIds(size) == 0..(size - 1)

\* mutant: ThreadPool::new without the check of size == 0
NewPoolUnchecked(size) ==
    /\ sizeArg' = size
    /\ newResult' = "Ok"
    /\ channelMade' = TRUE
    /\ workers' = [i \in 1..size |-> [id |-> i - 1, thread |-> "Some"]]
    /\ thread' = [w \in 0..(size - 1) |-> [at |-> "lock", msg |-> NoMsg]]
    /\ UNCHANGED <<channel, lockHolder, sent, jobs, dropI, dequeued, runs, completed,
                   atDrop>>

\* the body of ThreadPool::new(size): what it builds and returns
NewPool(size) ==
    /\ sizeArg' = size
    /\ IF size = 0
       THEN /\ newResult' = "InvalidSize"
            /\ UNCHANGED <<workers, channelMade, thread>>
       ELSE /\ newResult' = "Ok"
            /\ channelMade' = TRUE
            /\ workers' = [i \in 1..Cardinality(SpawnIds(size)) |->
                             [id |-> i - 1, thread |-> "Some"]]
            /\ thread' = [w \in SpawnIds(size) |-> [at |-> "lock", msg |-> NoMsg]]
    /\ UNCHANGED <<channel, lockHolder, sent, jobs, dropI, dequeued, runs, completed,
                   atDrop>>

\* a client calls ThreadPool::new(size)
New(size) ==
    /\ pc = "start"
    /\ NewPool(size)
    /\ pc' = IF size = 0 THEN "new_err" ELSE "ready"
    /\ UNCHANGED <<srvVars, routeVars>>

\* mutant: the message is put at the front of the channel
SendFront(q, m) == <<m>> \o q

\* self.sender.send(m): append to the channel
Send(q, m) == Append(q, m)

\* ThreadPool::execute(f)
Execute ==
    /\ pc = "ready"
    /\ jobs < MaxJobs
    /\ CanSend(channel)
    /\ channel' = Send(channel, NewJob(sent + 1))
    /\ sent' = sent + 1
    /\ jobs' = jobs + 1
    /\ UNCHANGED <<pc, sizeArg, newResult, workers, channelMade, lockHolder, thread,
                   dropI, dequeued, runs, completed, atDrop>>
    /\ UNCHANGED <<srvVars, routeVars>>

\* Drop::drop is entered by the thread at position `from`
EnterDrop(from) ==
    /\ pc = from
    /\ pc' = "drop_send"
    /\ dropI' = 1
    /\ atDrop' = [running |-> Running # {}, queued |-> JobsIn(channel) # {}]
    /\ UNCHANGED <<sizeArg, newResult, workers, channelMade, channel, lockHolder,
                   thread, sent, jobs, dequeued, runs, completed>>

\* the client lets its pool go out of scope
BeginDrop ==
    /\ EnterDrop("ready")
    /\ UNCHANGED <<srvVars, routeVars>>

\* mutant: one loop that sends a Terminate and joins the worker of the same turn:
\* the next Terminate is sent when the worker of the turn before has exited
DropSendThenJoin ==
    /\ pc = "drop_send"
    /\ IF dropI <= Len(workers)
       THEN /\ dropI > 1 => thread[workers[dropI - 1].id].at = "exited"
            /\ channel' = Append(channel, Terminate(sent + 1))
            /\ sent' = sent + 1
            /\ dropI' = dropI + 1
            /\ pc' = pc
       ELSE /\ pc' = "drop_join"
            /\ dropI' = 1
            /\ UNCHANGED <<channel, sent>>
    /\ UNCHANGED <<sizeArg, newResult, workers, channelMade, lockHolder, thread, jobs,
                   dequeued, runs, completed, atDrop>>
    /\ UNCHANGED <<srvVars, routeVars>>

\* mutant: Terminate overtakes the jobs that wait (a message of higher priority)
SendTerminateAhead(q, m) == <<m>> \o q

\* self.sender.send(Message::Terminate): the sender execute uses, the same queue
SendTerminate(q, m) == Send(q, m)

\* for _ in &self.workers { self.sender.send(Message::Terminate).unwrap(); }
DropSend ==
    /\ pc = "drop_send"
    /\ IF dropI <= Len(workers)
       THEN /\ CanSend(channel)
            /\ channel' = SendTerminate(channel, Terminate(sent + 1))
            /\ sent' = sent + 1
            /\ dropI' = dropI + 1
            /\ pc' = pc
       ELSE /\ pc' = "drop_join"
            /\ dropI' = 1
            /\ UNCHANGED <<channel, sent>>
    /\ UNCHANGED <<sizeArg, newResult, workers, channelMade, lockHolder, thread, jobs,
                   dequeued, runs, completed, atDrop>>
    /\ UNCHANGED <<srvVars, routeVars>>

\* mutant: the handle is dropped (the thread detached) instead of joined
JoinReturnsAtOnce(w) == TRUE

\* thread.join() returns once the thread has left its closure
JoinReturns(w) == thread[w].at = "exited"

\* for worker in &mut self.workers { if let Some(thread) = worker.thread.take()
\*     { thread.join().unwrap(); } }
DropJoin ==
    /\ pc = "drop_join"
    /\ IF dropI <= Len(workers)
       THEN /\ IF workers[dropI].thread = "Some"
               THEN /\ JoinReturns(workers[dropI].id)
                    /\ workers' = [workers EXCEPT ![dropI].thread = "None"]
               ELSE workers' = workers
            /\ dropI' = dropI + 1
            /\ pc' = pc
       ELSE /\ pc' = "dropped"
            /\ UNCHANGED <<workers, dropI>>
    /\ UNCHANGED <<sizeArg, newResult, channelMade, channel, lockHolder, thread, sent,
                   jobs, dequeued, runs, completed, atDrop>>
    /\ UNCHANGED <<srvVars, routeVars>>

\* ---------------------------------------------------- thread.rs: worker

\* receiver.lock(): the Mutex is free
Lock(w) ==
    /\ thread[w].at = "lock"
    /\ lockHolder = NoWorker
    /\ lockHolder' = w
    /\ thread' = [thread EXCEPT ![w].at = "recv"]
    /\ UNCHANGED <<pc, sizeArg, newResult, workers, channelMade, channel, sent, jobs,
                   dropI, dequeued, runs, completed, atDrop>>
    /\ UNCHANGED <<srvVars, routeVars>>

\* mutant: the oldest message is read and left in the channel
RestPeek(q) == q

\* what recv() leaves in the channel: the oldest message is taken out
Rest(q) == Tail(q)

\* mutant: the guard is bound to a name and lives to the end of the loop's body
GuardKept(w) == w

\* who holds the Mutex after `let message = receiver.lock().unwrap().recv().unwrap();`:
\* the MutexGuard is a temporary of the statement, dropped at its semicolon
GuardAfterLet(w) == NoWorker

\* .recv().unwrap(): blocks while the channel is empty, takes the oldest message;
\* the MutexGuard is a temporary of the let statement and is dropped at its end
Recv(w) ==
    /\ thread[w].at = "recv"
    /\ lockHolder = w
    /\ channel # <<>>
    /\ thread' = [thread EXCEPT ![w] = [at |-> "match", msg |-> Head(channel)]]
    /\ channel' = Rest(channel)
    /\ lockHolder' = GuardAfterLet(w)
    /\ dequeued' = Append(dequeued, Head(channel))
    /\ UNCHANGED <<pc, sizeArg, newResult, workers, channelMade, sent, jobs, dropI,
                   runs, completed, atDrop>>
    /\ UNCHANGED <<srvVars, routeVars>>

\* one more entry of job() for job j
Bump(f, j) == IF j \in DOMAIN f THEN [f EXCEPT ![j] = @ + 1] ELSE f @@ (j :> 1)

\* mutant: Message::Terminate => continue: the worker goes round its loop
AfterTerminateContinues == "lock"

\* Message::Terminate => break: the loop and with it the thread's closure end
AfterTerminate == "exited"

\* match message { NewJob(job) => job() is entered, Terminate => break }
Match(w) ==
    /\ thread[w].at = "match"
    /\ IF thread[w].msg.type = "NewJob"
       THEN /\ thread' = [thread EXCEPT ![w].at = "job"]
            /\ runs' = Bump(runs, thread[w].msg.seq)
       ELSE /\ thread' = [thread EXCEPT ![w] = [at |-> AfterTerminate, msg |-> NoMsg]]
            /\ runs' = runs
    /\ UNCHANGED <<pc, sizeArg, newResult, workers, channelMade, channel, lockHolder,
                   sent, jobs, dropI, dequeued, completed, atDrop>>
    /\ UNCHANGED <<srvVars, routeVars>>

\* job() returns; the loop goes round
JobReturns(w) ==
    /\ thread[w].at = "job"
    /\ completed' = completed \cup {thread[w].msg.seq}
    /\ thread' = [thread EXCEPT ![w] = [at |-> "lock", msg |-> NoMsg]]
    /\ UNCHANGED <<pc, sizeArg, newResult, workers, channelMade, channel, lockHolder,
                   sent, jobs, dropI, dequeued, runs, atDrop>>
    /\ UNCHANGED <<srvVars, routeVars>>

WorkerStep(w) == Lock(w) \/ Recv(w) \/ Match(w) \/ JobReturns(w)

\* ------------------------------------------------- lib.rs: HTTPServer
\* the pool size listen gives its own ThreadPool
DefaultPoolSize == 4

\* HTTPServer::set_shutdown(r): the caller made a channel and hands over its Receiver
SetShutdown ==
    /\ pc = "setup"
    /\ ~configured
    /\ shutdown' = "Some"
    /\ configured' = TRUE
    /\ txAlive' = TRUE
    /\ UNCHANGED <<executor, signal, conns, listenResult, received, stopConns, failed,
                   channelErrors>>
    /\ UNCHANGED poolVars
    /\ UNCHANGED routeVars

\* HTTPServer::set_handle_executor(f), with the executor of bin/main.rs that runs
\* the job on the calling thread: |f: HandleFn| { f(); }
SetHandleExecutor ==
    /\ pc = "setup"
    /\ executor = "None"
    /\ executor' = "Some"
    /\ UNCHANGED <<shutdown, configured, signal, txAlive, conns, listenResult,
                   received, stopConns, failed, channelErrors>>
    /\ UNCHANGED poolVars
    /\ UNCHANGED routeVars

\* the positions at which the accept loop of listen has not been left
InLoop == pc \in {"accept", "Ok", "WouldBlock", "Err", "inline_job"}

\* the holder of the Sender sends () on the shutdown channel (bin/main.rs: Ctrl-C);
\* once the loop is left nothing reads the channel, and the sends are left out
SendShutdown ==
    /\ configured
    /\ txAlive
    /\ pc = "setup" \/ InLoop
    /\ signal + received < MaxSignals
    /\ signal' = signal + 1
    /\ UNCHANGED <<shutdown, executor, configured, txAlive, conns, listenResult,
                   received, stopConns, failed, channelErrors>>
    /\ UNCHANGED poolVars
    /\ UNCHANGED routeVars

\* the holder of the Sender drops it
DropSender ==
    /\ configured
    /\ txAlive
    /\ pc = "setup" \/ InLoop
    /\ txAlive' = FALSE
    /\ UNCHANGED <<shutdown, executor, configured, signal, conns, listenResult,
                   received, stopConns, failed, channelErrors>>
    /\ UNCHANGED poolVars
    /\ UNCHANGED routeVars

\* listen(port), up to the accept loop: bind, set_nonblocking and local_addr may
\* fail (the ? operator returns the error); then the executor is chosen
Listen(startupOk) ==
    /\ pc = "setup"
    /\ IF ~startupOk
       THEN /\ pc' = "returned"
            /\ listenResult' = "Err"
            /\ UNCHANGED poolVarsButPc
       ELSE /\ pc' = "accept"
            /\ listenResult' = listenResult
            /\ IF executor = "None"
               THEN NewPool(DefaultPoolSize)
               ELSE UNCHANGED poolVarsButPc
    /\ UNCHANGED <<shutdown, executor, configured, signal, txAlive, conns,
                   received, stopConns, failed, channelErrors>>
    /\ UNCHANGED routeVars

\* for stream in listener.incoming(): the next accept result selects a match arm
Accept(result) ==
    /\ pc = "accept"
    /\ result = "Ok" => conns < MaxConns
    /\ pc' = result
    /\ UNCHANGED poolVarsButPc
    /\ UNCHANGED srvVars
    /\ UNCHANGED routeVars

\* Ok(stream) => execute(Box::new(move || { handle_connection(..) .. }))
\* default executor: pool.execute(f); custom executor: f() on this thread
ArmOk ==
    /\ pc = "Ok"
    /\ conns' = conns + 1
    /\ IF executor = "None"
       THEN /\ CanSend(channel)
            /\ channel' = Send(channel, NewJob(sent + 1))
            /\ sent' = sent + 1
            /\ jobs' = jobs + 1
            /\ pc' = "accept"
            /\ UNCHANGED <<runs, completed>>
       ELSE /\ runs' = Bump(runs, conns + 1)
            /\ completed' = completed
            /\ pc' = "inline_job"
            /\ UNCHANGED <<channel, sent, jobs>>
    /\ UNCHANGED <<sizeArg, newResult, workers, channelMade, lockHolder, thread,
                   dropI, dequeued, atDrop>>
    /\ UNCHANGED <<shutdown, executor, configured, signal, txAlive, listenResult,
                   received, stopConns, failed, channelErrors>>
    /\ UNCHANGED routeVars

\* the closure listen hands to the executor, run to its end:
\*   move || { if let Err(e) = handle_connection(handles, stream) { log::error!(..) } }
\* result is what handle_connection returned; the closure returns () either way

\* mutant: handle_connection(handles, stream).unwrap(): an Err panics the thread
AfterConnectionUnwrap(result) == IF result = "Ok" THEN "lock" ELSE "exited"

\* where the worker that ran the closure goes: back to the head of its loop
AfterConnection(result) == "lock"

\* the closure returns on a worker of the default pool
ConnectionJobReturns(w, result) ==
    /\ thread[w].at = "job"
    /\ completed' = completed \cup {thread[w].msg.seq}
    /\ failed' = (failed \/ result # "Ok")
    /\ thread' = [thread EXCEPT ![w] = [at |-> AfterConnection(result), msg |-> NoMsg]]
    /\ UNCHANGED <<pc, sizeArg, newResult, workers, channelMade, channel, lockHolder,
                   sent, jobs, dropI, dequeued, runs, atDrop>>
    /\ UNCHANGED <<shutdown, executor, configured, signal, txAlive, conns,
                   listenResult, received, stopConns, channelErrors>>
    /\ UNCHANGED routeVars

\* the closure, run by the custom executor on the thread of listen, returns to the
\* accept loop
InlineJobReturns(result) ==
    /\ pc = "inline_job"
    /\ completed' = completed \cup {conns}
    /\ failed' = (failed \/ result # "Ok")
    /\ pc' = "accept"
    /\ UNCHANGED <<sizeArg, newResult, workers, channelMade, channel, lockHolder,
                   thread, sent, jobs, dropI, dequeued, runs, atDrop>>
    /\ UNCHANGED <<shutdown, executor, configured, signal, txAlive, conns,
                   listenResult, received, stopConns, channelErrors>>
    /\ UNCHANGED routeVars

\* shutdown.try_recv(): Ok(()) when a value waits, else Empty while a Sender
\* lives, else Disconnected
TryRecv == IF signal > 0 THEN "Ok" ELSE IF txAlive THEN "Empty" ELSE "Disconnected"

\* mutant: the error of the channel ends the accept loop (break)
AfterChannelErrorStops == "stopped"

\* where the loop goes after the channel error was logged and self.shutdown set to
\* None: the arm ends and the for loop takes the next accept result
AfterChannelError == "accept"

\* mutant: the signal is taken and the loop goes on (Ok(_) without break)
AfterSignalContinues == "accept"

\* Ok(_) => break: the for loop is left
AfterSignal == "stopped"

\* Err(e) if e.kind() == WouldBlock => { if let Some(shutdown) = self.shutdown
\*   { match shutdown.try_recv() { Err(Empty) => continue,
\*       Err(e) => { log::error!(..); self.shutdown = None }, Ok(_) => break } } }
ArmWouldBlock ==
    /\ pc = "WouldBlock"
    /\ IF shutdown = "Some"
       THEN CASE TryRecv = "Ok" ->
                    /\ signal' = signal - 1
                    /\ received' = received + 1
                    /\ stopConns' = conns
                    /\ pc' = AfterSignal
                    /\ UNCHANGED <<shutdown, channelErrors>>
              [] TryRecv = "Empty" ->
                    /\ pc' = "accept"
                    /\ UNCHANGED <<shutdown, signal, received, stopConns, channelErrors>>
              [] TryRecv = "Disconnected" ->
                    /\ channelErrors' = channelErrors + 1
                    /\ shutdown' = "None"
                    /\ pc' = AfterChannelError
                    /\ UNCHANGED <<signal, received, stopConns>>
       ELSE /\ pc' = "accept"
            /\ UNCHANGED <<shutdown, signal, received, stopConns, channelErrors>>
    /\ UNCHANGED <<executor, configured, txAlive, conns, listenResult, failed>>
    /\ UNCHANGED poolVarsButPc
    /\ UNCHANGED routeVars

\* mutant: a hard accept error ends the loop
AfterHardErrorStops == "stopped"

\* where the loop goes after the arm of a hard accept error
AfterHardError == "accept"

\* mutant: the arm of a hard error polls the shutdown channel as the would-block
\* arm does (the guard `if e.kind() == WouldBlock` left out)
ArmErrPolls ==
    /\ pc = "Err"
    /\ IF shutdown = "Some" /\ TryRecv = "Ok"
       THEN /\ signal' = signal - 1
            /\ received' = received + 1
            /\ stopConns' = conns
            /\ pc' = "stopped"
       ELSE /\ pc' = "accept"
            /\ UNCHANGED <<signal, received, stopConns>>
    /\ UNCHANGED <<shutdown, executor, configured, txAlive, conns, listenResult, failed,
                   channelErrors>>
    /\ UNCHANGED poolVarsButPc
    /\ UNCHANGED routeVars

\* Err(e) => { eprintln!(..) }
ArmErr ==
    /\ pc = "Err"
    /\ pc' = AfterHardError
    /\ UNCHANGED <<shutdown, executor, configured, signal, txAlive, conns,
                   listenResult, received, stopConns, failed, channelErrors>>
    /\ UNCHANGED poolVarsButPc
    /\ UNCHANGED routeVars

\* mutant: listen returns without dropping the pool (the pool is leaked)
LeaveListenAtOnce ==
    /\ pc = "stopped"
    /\ pc' = "returned"
    /\ listenResult' = "Ok"
    /\ UNCHANGED poolVarsButPc
    /\ UNCHANGED <<shutdown, executor, configured, signal, txAlive, conns,
                   received, stopConns, failed, channelErrors>>
    /\ UNCHANGED routeVars

\* after the loop: Ok(()) is returned and the locals are dropped; `execute` owns
\* the default pool, so ThreadPool's Drop runs before listen returns
LeaveListen ==
    /\ pc = "stopped"
    /\ IF executor = "None"
       THEN /\ EnterDrop("stopped")
            /\ UNCHANGED srvVars
       ELSE /\ pc' = "returned"
            /\ listenResult' = "Ok"
            /\ UNCHANGED poolVarsButPc
            /\ UNCHANGED <<shutdown, executor, configured, signal, txAlive, conns,
                           received, stopConns, failed, channelErrors>>
    /\ UNCHANGED routeVars

\* the drop of the default pool is over: listen returns Ok(())
ListenReturns ==
    /\ pc = "dropped"
    /\ pc' = "returned"
    /\ listenResult' = "Ok"
    /\ UNCHANGED poolVarsButPc
    /\ UNCHANGED <<shutdown, executor, configured, signal, txAlive, conns,
                   received, stopConns, failed, channelErrors>>
    /\ UNCHANGED routeVars

\* ------------------------------------------------ lib.rs: strings, bytes
\* A String is the sequence of its code points; as_bytes() is its UTF-8 encoding.

\* the UTF-8 encoding of one code point
Utf8(cp) ==
    IF cp < 128 THEN <<cp>>
    ELSE IF cp < 2048 THEN <<192 + (cp \div 64), 128 + (cp % 64)>>
    ELSE IF cp < 65536
         THEN <<224 + (cp \div 4096), 128 + ((cp \div 64) % 64), 128 + (cp % 64)>>
    ELSE <<240 + (cp \div 262144), 128 + ((cp \div 4096) % 64),
           128 + ((cp \div 64) % 64), 128 + (cp % 64)>>

RECURSIVE AsBytes(_)
\* str::as_bytes
AsBytes(str) ==
    IF str = <<>> THEN <<>>
    ELSE IF Len(str) = 1 THEN Utf8(str[1])
    ELSE AsBytes(SubSeq(str, 1, Len(str) \div 2))
         \o AsBytes(SubSeq(str, (Len(str) \div 2) + 1, Len(str)))

\* str::len: the length in bytes
StrLen(str) == Len(AsBytes(str))

RECURSIVE Dec(_)
\* Display of an unsigned integer: its decimal digits
Dec(n) == IF n < 10 THEN <<48 + n>> ELSE Dec(n \div 10) \o <<48 + (n % 10)>>

\* impl Display for HTTPMethod: "GET", "POST"
MethodStr(method) == IF method = "Get" THEN <<71, 69, 84>> ELSE <<80, 79, 83, 84>>

\* " HTTP/1.1\r\n"
ProtoLine == <<32, 72, 84, 84, 80, 47, 49, 46, 49, 13, 10>>

\* mutant: the path is copied as it is, the empty one too
create_pattern_verbatim(method, path) == MethodStr(method) \o <<32>> \o path \o ProtoLine

RECURSIVE create_pattern(_, _)
\* create_pattern(method, path)
create_pattern(method, path) ==
    IF path = <<>>
    THEN create_pattern(method, <<47>>)
    ELSE MethodStr(method) \o <<32>> \o path \o ProtoLine

\* Option<String>
NoContent == [some |-> FALSE, str |-> <<>>]
SomeContent(str) == [some |-> TRUE, str |-> str]

\* HTTPResponse::new(status)
HTTPResponseNew(status) == [status |-> status, content |-> NoContent]

\* HTTPResponse::with_content(self, content)
with_content(resp, str) == [resp EXCEPT !.content = SomeContent(str)]

\* mutant: the number of characters, content.chars().count()
ContentLengthChars(str) == Len(str)

\* the length the Display of a response announces for its content
ContentLength(str) == StrLen(str)

\* impl Display for HTTPResponse, as the bytes of the formatted String:
\* "HTTP/1.1 {}\r\nContent-Length: {}\r\n\r\n{}" or "HTTP/1.1 {}\r\n\r\n"
Display(resp) ==
    IF resp.content.some
    THEN <<72, 84, 84, 80, 47, 49, 46, 49, 32>> \o Dec(resp.status) \o <<13, 10>>
         \o <<67, 111, 110, 116, 101, 110, 116, 45, 76, 101, 110, 103, 116, 104, 58, 32>>
         \o Dec(ContentLength(resp.content.str)) \o <<13, 10, 13, 10>>
         \o AsBytes(resp.content.str)
    ELSE <<72, 84, 84, 80, 47, 49, 46, 49, 32>> \o Dec(resp.status) \o <<13, 10, 13, 10>>

\* const HTTP_CONTENT_404 (all of it ASCII)
HTTP_CONTENT_404 == <<
    60, 33, 68, 79, 67, 84, 89, 80, 69, 32, 104, 116, 109, 108, 62, 10, 60, 104, 116, 109,
    108, 32, 108, 97, 110, 103, 61, 34, 101, 110, 34, 62, 10, 32, 32, 60, 104, 101, 97, 100,
    62, 10, 32, 32, 32, 32, 60, 109, 101, 116, 97, 32, 99, 104, 97, 114, 115, 101, 116, 61,
    34, 117, 116, 102, 45, 56, 34, 62, 10, 32, 32, 32, 32, 60, 116, 105, 116, 108, 101, 62,
    72, 101, 108, 108, 111, 33, 60, 47, 116, 105, 116, 108, 101, 62, 10, 32, 32, 60, 47, 104,
    101, 97, 100, 62, 10, 32, 32, 60, 98, 111, 100, 121, 62, 10, 32, 32, 32, 32, 60, 104,
    49, 62, 79, 111, 112, 115, 33, 60, 47, 104, 49, 62, 10, 32, 32, 32, 32, 60, 112, 62,
    83, 111, 114, 114, 121, 44, 32, 73, 32, 100, 111, 110, 39, 116, 32, 107, 110, 111, 119, 32,
    119, 104, 97, 116, 32, 121, 111, 117, 39, 114, 101, 32, 97, 115, 107, 105, 110, 103, 32, 102,
    111, 114, 46, 60, 47, 112, 62, 10, 32, 32, 60, 47, 98, 111, 100, 121, 62, 10, 60, 47,
    104, 116, 109, 108, 62, 10 >>

\* ------------------------------------------------- lib.rs: route table
\* mutant: entry(k).or_insert(v): an entry that exists is kept
InsertIfAbsent(map, k, v) ==
    [p \in (DOMAIN map) \cup {k} |-> IF p \in DOMAIN map THEN map[p] ELSE v]

\* HashMap::insert(k, v): the entry of k is set, and replaced when there is one
Insert(map, k, v) == [p \in (DOMAIN map) \cup {k} |-> IF p = k THEN v ELSE map[p]]

\* HTTPServer::add_handle(method, path, handle); handle.id numbers the call
add_handle(method, path, handle) ==
    /\ pc = "route"
    /\ Len(regs) < MaxHandles
    /\ handle.id = Len(regs) + 1
    /\ handles' = Insert(handles, create_pattern(method, path), handle)
    /\ regs' = Append(regs, [method |-> method, path |-> path, id |-> handle.id])
    /\ UNCHANGED <<pc, conn>>
    /\ UNCHANGED <<poolVarsButPc, srvVars>>

\* --------------------------------------------- lib.rs: handle_connection
\* the size of the read buffer: let mut buffer = [0; 1024]
BufSize == 1024
\* the number of read attempts: for _ in 0..16
MaxReads == 16

\* The buffer is kept as [size, head]: the bytes a read filled, the rest being the
\* zeros of [0; 1024].
EmptyBuffer == [size |-> BufSize, head |-> <<>>]
Byte(buffer, i) == IF i <= Len(buffer.head) THEN buffer.head[i] ELSE 0

\* stream.read(&mut buffer) returning Ok(n): the front of the buffer is filled
Fill(buffer, data) ==
    [buffer EXCEPT !.head = IF Len(data) <= buffer.size THEN data
                            ELSE SubSeq(data, 1, buffer.size)]

\* <[u8]>::starts_with
starts_with(buffer, needle) ==
    /\ Len(needle) <= buffer.size
    /\ \A i \in 1..Len(needle) : Byte(buffer, i) = needle[i]

\* A stream is [wouldBlocks, then, write, flush]: its first wouldBlocks reads fail
\* with WouldBlock, every later read gives `then`; write_all and flush give their
\* results.  A read result is [kind, data], kind "Ok" or an io::ErrorKind.
ReadAt(stream, k) ==
    IF k <= stream.wouldBlocks THEN [kind |-> "WouldBlock", data |-> <<>>]
    ELSE stream.then

\* the error kinds after which the read is tried again
Retried == {"WouldBlock"}

\* mutant: for _ in 0..=16
MoreAttemptsInclusive(k) == k <= MaxReads + 1

\* for _ in 0..16: attempt k is made when k is one of the 16
MoreAttempts(k) == k <= MaxReads

RECURSIVE ReadLoop(_, _, _)
\* for _ in 0..16 { match stream.read(&mut buffer) { Ok(_) => break,
\*   Err(e) => match e.kind() { WouldBlock => { sleep; continue }, _ => return Err(e) } } }
\* k is the attempt about to be made
ReadLoop(stream, k, buffer) ==
    IF ~MoreAttempts(k)
    THEN [buffer |-> buffer, err |-> "None", reads |-> k - 1, sleeps |-> k - 1]
    ELSE LET r == ReadAt(stream, k) IN
         IF r.kind = "Ok"
         THEN [buffer |-> Fill(buffer, r.data), err |-> "None", reads |-> k,
               sleeps |-> k - 1]
         ELSE IF r.kind \in Retried
         THEN ReadLoop(stream, k + 1, buffer)
         ELSE [buffer |-> buffer, err |-> r.kind, reads |-> k, sleeps |-> k - 1]

\* if buffer[0] == 0 { return Err(InvalidInput) }
NothingRead(buffer) == Byte(buffer, 1) = 0

RECURSIVE Scan(_, _, _, _)
\* for (pattern, handle) in handles.iter() { if buffer.starts_with(pattern.as_bytes())
\*   { response = Some(handle()?) } }
\* order is the order in which the HashMap yields its keys
Scan(map, order, buffer, acc) ==
    IF order = <<>> THEN acc
    ELSE LET handle == map[Head(order)] IN
         IF starts_with(buffer, AsBytes(Head(order)))
         THEN IF handle.result = "Err"
              THEN [acc EXCEPT !.invoked = Append(@, handle.id), !.err = TRUE]
              ELSE Scan(map, Tail(order), buffer,
                        [acc EXCEPT !.invoked = Append(@, handle.id),
                                    !.some = TRUE, !.response = handle.response])
         ELSE Scan(map, Tail(order), buffer, acc)

\* format!("{}", HTTPResponse::new(404).with_content(HTTP_CONTENT_404)), as bytes
NotFound == Display(with_content(HTTPResponseNew(404), HTTP_CONTENT_404))

\* what handle_connection returns and does: ret is "Ok" or the error, reads and
\* sleeps count the read attempts and the sleeps, invoked lists the handles called,
\* wrote/written is the call of write_all and its argument
Outcome(ret, rd, invoked, wrote, written) ==
    [ret |-> ret, reads |-> rd.reads, sleeps |-> rd.sleeps, invoked |-> invoked,
     wrote |-> wrote, written |-> written]

\* handle_connection(handles, stream)
handle_connection(map, order, stream) ==
    LET rd == ReadLoop(stream, 1, EmptyBuffer) IN
    IF rd.err # "None" THEN Outcome(rd.err, rd, <<>>, FALSE, <<>>)
    ELSE IF NothingRead(rd.buffer) THEN Outcome("InvalidInput", rd, <<>>, FALSE, <<>>)
    ELSE LET sc == Scan(map, order, rd.buffer,
                        [some |-> FALSE, response |-> HTTPResponseNew(0),
                         invoked |-> <<>>, err |-> FALSE])
         IN
         IF sc.err THEN Outcome("HandlerError", rd, sc.invoked, FALSE, <<>>)
         ELSE LET content == IF sc.some THEN Display(sc.response) ELSE NotFound
              IN
              IF stream.write = "Err"
              THEN Outcome("WriteError", rd, sc.invoked, TRUE, content)
              ELSE IF stream.flush = "Err"
              THEN Outcome("FlushError", rd, sc.invoked, TRUE, content)
              ELSE Outcome("Ok", rd, sc.invoked, TRUE, content)

\* ------------------------------------------------- inputs of SpecRoute
Methods == {"Get", "Post"}

\* the paths registered: "", "/", and "/ HTTP/1.1\r\nx" (paths are not validated)
Paths == {<<>>, <<47>>, <<47>> \o ProtoLine \o <<120>>}

\* the handles registered: closures returning Ok(200 with "Hé"), Ok(403), Err
Handles(id) ==
    {[id |-> id, result |-> "Ok",
      response |-> with_content(HTTPResponseNew(200), <<72, 233>>)],
     [id |-> id, result |-> "Ok", response |-> HTTPResponseNew(403)],
     [id |-> id, result |-> "Err", response |-> HTTPResponseNew(0)]}

Req(method, path) == create_pattern(method, path) \o <<13, 10>>

\* the bytes a successful read delivers
Datas ==
    {<<>>,                                     \* Ok(0): the peer closed
     Req("Get", <<47>>),                       \* GET /
     Req("Post", <<47>>),                      \* POST /
     Req("Get", <<47, 98>>),                   \* GET /b
     <<0>> \o Req("Get", <<47>>),              \* a NUL byte, then GET /
     <<71, 69, 84, 32, 47>>,                   \* "GET /": a partial request line
     AsBytes(create_pattern("Get", <<47>> \o ProtoLine \o <<120>>))}

OkRead(data) == [kind |-> "Ok", data |-> data]
ErrRead(kind) == [kind |-> kind, data |-> <<>>]
Stream(n, then, write, flush) ==
    [wouldBlocks |-> n, then |-> then, write |-> write, flush |-> flush]

Streams ==
    {Stream(0, OkRead(d), "Ok", "Ok") : d \in Datas}
    \cup {Stream(0, ErrRead(k), "Ok", "Ok") : k \in {"Interrupted", "ConnectionReset"}}
    \cup {Stream(n, t, "Ok", "Ok") :
            n \in {1, MaxReads - 1, MaxReads},
            t \in {OkRead(Req("Get", <<47>>)), ErrRead("ConnectionReset")}}
    \cup {Stream(0, OkRead(d), w[1], w[2]) :
            d \in {Req("Get", <<47>>), Req("Get", <<47, 98>>)},
            w \in {<<"Err", "Ok">>, <<"Ok", "Err">>}}

\* the orders in which a HashMap with these keys may yield them
Orders(keys) ==
    {o \in [1..Cardinality(keys) -> keys] : \A i, j \in DOMAIN o : i # j => o[i] # o[j]}

\* one connection is handled with the table as registered
HandleConnection(stream, order) ==
    /\ pc = "route"
    /\ pc' = "served"
    /\ conn' = [handled |-> TRUE, stream |-> stream, order |-> order,
                out |-> handle_connection(handles, order, stream)]
    /\ UNCHANGED <<handles, regs>>
    /\ UNCHANGED <<poolVarsButPc, srvVars>>

\* ------------------------------------------------- inputs of SpecServer
\* listen moves the table into an Arc (let handles = Arc::new(self.handles)); the
\* tables the closure is run with: the empty one, and GET / with a handle that fails
Tables ==
    {<<>>,
     Insert(<<>>, create_pattern("Get", <<47>>),
            [id |-> 1, result |-> "Err", response |-> HTTPResponseNew(0)])}

\* what handle_connection can return to the closure, over those tables and Streams
ConnResults ==
    UNION {{handle_connection(map, order, stream).ret :
                order \in Orders(DOMAIN map), stream \in Streams} : map \in Tables}

\* if let Err(e) = ..: the closure tells Ok(()) from Err(e) and nothing more
ConnOutcomes == {IF ret = "Ok" THEN "Ok" ELSE "Err" : ret \in ConnResults}

\* ------------------------------------------------------- specifications
InitPoolVars ==
    /\ sizeArg = -1
    /\ newResult = "none"
    /\ workers = <<>>
    /\ channelMade = FALSE
    /\ channel = <<>>
    /\ lockHolder = NoWorker
    /\ thread = <<>>
    /\ sent = 0
    /\ jobs = 0
    /\ dropI = 0
    /\ dequeued = <<>>
    /\ runs = <<>>
    /\ completed = {}
    /\ atDrop = [running |-> FALSE, queued |-> FALSE]

\* HTTPServer::new()
InitSrvVars ==
    /\ shutdown = "None"
    /\ executor = "None"
    /\ configured = FALSE
    /\ signal = 0
    /\ txAlive = FALSE
    /\ conns = 0
    /\ listenResult = "none"
    /\ received = 0
    /\ stopConns = -1
    /\ failed = FALSE
    /\ channelErrors = 0

\* HTTPServer::new(): handles is HashMap::new()
InitRouteVars ==
    /\ handles = <<>>
    /\ regs = <<>>
    /\ conn = [handled |-> FALSE]

InitPool == pc = "start" /\ InitPoolVars /\ InitSrvVars /\ InitRouteVars

NextPool ==
    \/ \E size \in 0..MaxSize : New(size)
    \/ Execute
    \/ BeginDrop
    \/ DropSend
    \/ DropJoin
    \/ \E w \in DOMAIN thread : WorkerStep(w)

InitServer == pc = "setup" /\ InitPoolVars /\ InitSrvVars /\ InitRouteVars

NextServer ==
    \/ SetShutdown
    \/ SetHandleExecutor
    \/ SendShutdown
    \/ DropSender
    \/ \E ok \in BOOLEAN : Listen(ok)
    \/ \E r \in {"Ok", "WouldBlock", "Err"} : Accept(r)
    \/ ArmOk
    \/ \E result \in ConnOutcomes : InlineJobReturns(result)
    \/ ArmWouldBlock
    \/ ArmErr
    \/ LeaveListen
    \/ DropSend
    \/ DropJoin
    \/ ListenReturns
    \/ \E w \in DOMAIN thread : Lock(w) \/ Recv(w) \/ Match(w)
    \/ \E w \in DOMAIN thread, result \in ConnOutcomes : ConnectionJobReturns(w, result)

InitRoute == pc = "route" /\ InitPoolVars /\ InitSrvVars /\ InitRouteVars

NextRoute ==
    \/ \E method \in Methods, path \in Paths :
          \E handle \in Handles(Len(regs) + 1) : add_handle(method, path, handle)
    \/ \E stream \in Streams, order \in Orders(DOMAIN handles) :
          HandleConnection(stream, order)

vars == <<poolVars, srvVars, routeVars>>

SpecPool == InitPool /\ [][NextPool]_vars

\* the threads are scheduled fairly: the thread in drop and every worker thread
\* take their next step when they can, and a job that runs returns
SpecPoolFair ==
    /\ InitPool
    /\ [][NextPool]_vars
    /\ WF_vars(DropSend)
    /\ WF_vars(DropJoin)
    /\ \A w \in 0..(MaxSize - 1) : WF_vars(w \in DOMAIN thread /\ WorkerStep(w))

SpecServer == InitServer /\ [][NextServer]_vars

\* bin/main.rs: the server is configured (executor of the Blocked method or the
\* default pool; the executor of the threadpool crate is not modelled), then
\* set_shutdown, then listen; the Ctrl-C handler keeps the Sender for the life of
\* the process and sends () at each Ctrl-C.  MaxMainConns connections arrive.
AcceptMain(result) ==
    /\ result = "Ok" => conns < MaxMainConns
    /\ Accept(result)

\* a step of the thread that runs listen, from accept to the return
ListenStep ==
    \/ \E r \in {"Ok", "WouldBlock", "Err"} : AcceptMain(r)
    \/ ArmOk
    \/ \E result \in ConnOutcomes : InlineJobReturns(result)
    \/ ArmWouldBlock
    \/ ArmErr
    \/ LeaveListen
    \/ DropSend
    \/ DropJoin
    \/ ListenReturns

\* a step of worker thread w of listen's pool; the connection job it runs returns
ServerWorkerStep(w) ==
    /\ w \in DOMAIN thread
    /\ \/ Lock(w)
       \/ Recv(w)
       \/ Match(w)
       \/ \E result \in ConnOutcomes : ConnectionJobReturns(w, result)

NextMain ==
    \/ SetHandleExecutor
    \/ SetShutdown
    \/ SendShutdown
    \/ \E ok \in BOOLEAN : configured /\ Listen(ok)
    \/ ListenStep
    \/ \E w \in DOMAIN thread : ServerWorkerStep(w)

\* the threads are scheduled fairly: the thread in listen and every worker thread
\* take their next step when they can.  What accept returns is the listener's
\* choice, and when Ctrl-C is pressed is the user's.
SpecMain ==
    /\ InitServer
    /\ [][NextMain]_vars
    /\ WF_vars(ListenStep)
    /\ \A w \in 0..(DefaultPoolSize - 1) : WF_vars(ServerWorkerStep(w))

SpecRoute == InitRoute /\ [][NextRoute]_vars

\* ================================================================ claims

\* ---- C1 (SpecPool)
Received == {dequeued[i].seq : i \in 1..Len(dequeued)}
Waiting == \A w \in DOMAIN thread : thread[w].at \in {"lock", "recv"}
Quiet == newResult = "Ok" /\ Waiting /\ JobsIn(channel) = {}

\* C1: whatever the pool size s >= 1 and the number k of jobs submitted (k > s
\* included), no message is received twice, no two workers hold the same message,
\* job() is entered once per job, and when every worker waits on the empty queue
\* again the jobs run and returned are exactly the k submitted.
C1_EachJobExactlyOnce ==
    /\ Cardinality(Received) = Len(dequeued)
    /\ \A v, w \in DOMAIN thread :
          (v # w /\ thread[v].msg # NoMsg) => thread[v].msg # thread[w].msg
    /\ \A j \in DOMAIN runs : runs[j] = 1
    /\ Quiet => (DOMAIN runs = 1..jobs /\ completed = 1..jobs)

\* more jobs than workers, all done, the pool still in use
C1_Witness ==
    /\ pc = "ready"
    /\ Quiet
    /\ jobs = MaxJobs
    /\ jobs > Len(workers)
    /\ completed = 1..jobs

\* ---- C2 (SpecPool)
\* C2: when drop has returned, every worker thread has exited, no job is being
\* executed, and every job a worker had started (those in flight when drop began
\* included) has returned.
C2_DropWaitsForJobs ==
    pc = "dropped" =>
        /\ \A w \in DOMAIN thread : thread[w].at = "exited"
        /\ Running = {}
        /\ DOMAIN runs \subseteq completed
        /\ atDrop.running => completed # {}

\* drop has returned and a job was being executed when it began
C2_Witness == pc = "dropped" /\ atDrop.running

\* ---- C3 (SpecPool)
\* C3: ThreadPool::new(0) returns InvalidSize, spawns no worker and makes no channel;
\* ThreadPool::new(s), s >= 1, returns Ok with workers 0..s-1, one thread each, and
\* the workers stay those for the rest of the run.
C3_NewChecksSize ==
    /\ pc # "start" => newResult # "none"
    /\ sizeArg = 0 => newResult = "InvalidSize"
    /\ newResult = "InvalidSize" =>
          /\ sizeArg = 0
          /\ workers = <<>>
          /\ DOMAIN thread = {}
          /\ ~channelMade
          /\ channel = <<>>
    /\ newResult = "Ok" =>
          /\ sizeArg >= 1
          /\ Len(workers) = sizeArg
          /\ \A i \in 1..Len(workers) : workers[i].id = i - 1
          /\ DOMAIN thread = 0..(sizeArg - 1)
          /\ channelMade

\* new(0) has returned its error
C3_Witness == pc = "new_err" /\ sizeArg = 0 /\ newResult = "InvalidSize"

\* ---- C4 (SpecPool)
\* C4: the jobs are received in the order of their submission: the i-th message
\* received, when a job, is the i-th job submitted; nothing orders the returns.
C4_FifoDequeue ==
    \A i \in 1..Len(dequeued) : dequeued[i].type = "NewJob" => dequeued[i].seq = i

\* job 2 has returned while job 1, received first by another worker, still runs
C4_Witness ==
    /\ 2 \in completed
    /\ \E w \in DOMAIN thread : thread[w].at = "job" /\ thread[w].msg.seq = 1

\* ---- C5 (SpecPool)
\* C5: while the pool is in use, execute can always take its step, whatever the
\* workers do and however long the queue is (up to the MaxJobs calls of the model).
C5_ExecuteNeverBlocks == (pc = "ready" /\ jobs < MaxJobs) => ENABLED Execute

\* every worker is executing a job and two more jobs were queued meanwhile
C5_Witness ==
    /\ pc = "ready"
    /\ DOMAIN thread # {}
    /\ \A w \in DOMAIN thread : thread[w].at = "job"
    /\ Len(channel) >= 2

\* ---- C6 (SpecPool)
\* C6: at most s jobs are being executed at any time in a pool of size s, each by
\* a worker of its own.
C6_AtMostSizeRunning ==
    newResult = "Ok" =>
        /\ Cardinality({w \in DOMAIN thread : thread[w].at = "job"}) <= sizeArg
        /\ Cardinality(Running) = Cardinality({w \in DOMAIN thread : thread[w].at = "job"})

\* s = 2 jobs run at once and a further job waits in the queue
C6_Witness ==
    /\ sizeArg >= 2
    /\ Cardinality(Running) = sizeArg
    /\ JobsIn(channel) # {}

\* ---- C7 (SpecServer)
\* C7: with the default pool, once the accept loop has received the shutdown
\* signal it is not re-entered, no connection is accepted and no job submitted any
\* more, and when listen has returned Ok every connection job submitted has
\* returned and every worker has exited.
C7_GracefulShutdown ==
    executor = "None" =>
        /\ stopConns # -1 => (~InLoop /\ conns = stopConns /\ jobs = stopConns)
        /\ listenResult = "Ok" =>
              /\ stopConns # -1
              /\ completed = 1..stopConns
              /\ \A w \in DOMAIN thread : thread[w].at = "exited"

\* listen returned Ok and a connection was being handled when the pool's drop began
C7_Witness == listenResult = "Ok" /\ executor = "None" /\ atDrop.running

\* ---- C8 (SpecServer)
LoopLeft == pc \in {"stopped", "drop_send", "drop_join", "dropped"} \/ listenResult = "Ok"

\* C8: the accept loop is left only with a shutdown channel configured and one
\* value received from it; with none configured it is never left.
C8_OnlySignalStops == LoopLeft => (configured /\ received = 1)

\* no channel configured: a would-block accept after a connection, loop still on
C8_Witness == ~configured /\ pc = "WouldBlock" /\ conns >= 1 /\ ~LoopLeft

\* ---- C9 (SpecRoute)
\* "HTTP/1.1 404\r\nContent-Length: 206\r\n\r\n" and the fallback body
Expected404 == <<
    72, 84, 84, 80, 47, 49, 46, 49, 32, 52, 48, 52, 13, 10, 67, 111, 110, 116, 101, 110,
    116, 45, 76, 101, 110, 103, 116, 104, 58, 32, 50, 48, 54, 13, 10, 13, 10, 60, 33, 68,
    79, 67, 84, 89, 80, 69, 32, 104, 116, 109, 108, 62, 10, 60, 104, 116, 109, 108, 32, 108,
    97, 110, 103, 61, 34, 101, 110, 34, 62, 10, 32, 32, 60, 104, 101, 97, 100, 62, 10, 32,
    32, 32, 32, 60, 109, 101, 116, 97, 32, 99, 104, 97, 114, 115, 101, 116, 61, 34, 117, 116,
    102, 45, 56, 34, 62, 10, 32, 32, 32, 32, 60, 116, 105, 116, 108, 101, 62, 72, 101, 108,
    108, 111, 33, 60, 47, 116, 105, 116, 108, 101, 62, 10, 32, 32, 60, 47, 104, 101, 97, 100,
    62, 10, 32, 32, 60, 98, 111, 100, 121, 62, 10, 32, 32, 32, 32, 60, 104, 49, 62, 79,
    111, 112, 115, 33, 60, 47, 104, 49, 62, 10, 32, 32, 32, 32, 60, 112, 62, 83, 111, 114,
    114, 121, 44, 32, 73, 32, 100, 111, 110, 39, 116, 32, 107, 110, 111, 119, 32, 119, 104, 97,
    116, 32, 121, 111, 117, 39, 114, 101, 32, 97, 115, 107, 105, 110, 103, 32, 102, 111, 114, 46,
    60, 47, 112, 62, 10, 32, 32, 60, 47, 98, 111, 100, 121, 62, 10, 60, 47, 104, 116, 109,
    108, 62, 10 >>

IsPrefix(pat, bytes) == Len(pat) <= Len(bytes) /\ SubSeq(bytes, 1, Len(pat)) = pat

\* a read within the 16 attempts succeeded and delivered at least one byte
RequestRead ==
    /\ conn.handled
    /\ conn.stream.wouldBlocks < MaxReads
    /\ conn.stream.then.kind = "Ok"
    /\ conn.stream.then.data # <<>>

\* C9: when the request bytes were read and no registered pattern is a prefix of
\* them, no handle is called and write_all is given the 404 response with the
\* fallback body.
C9_Unmatched404 ==
    (RequestRead /\ \A p \in DOMAIN handles : ~IsPrefix(AsBytes(p), conn.stream.then.data))
        => /\ conn.out.invoked = <<>>
           /\ conn.out.wrote
           /\ conn.out.written = Expected404

\* ---- C10 (SpecRoute)
\* what a registration is for: its method and its path, "" standing for "/"
Key(r) == <<r.method, IF r.path = <<>> THEN <<47>> ELSE r.path>>
\* the registrations no later one replaces
Latest == {i \in 1..Len(regs) : \A j \in (i + 1)..Len(regs) : Key(regs[j]) # Key(regs[i])}

\* C10: the table holds one entry per (method, path) registered, "" and "/" being
\* the same path, each entry the handle of the latest registration, and a request
\* calls none but those latest handles.
C10_LastRegistrationWins ==
    /\ Cardinality(DOMAIN handles) = Cardinality({Key(regs[i]) : i \in 1..Len(regs)})
    /\ {handles[p].id : p \in DOMAIN handles} = Latest
    /\ conn.handled => \A k \in 1..Len(conn.out.invoked) : conn.out.invoked[k] \in Latest

\* "" then "/" registered for GET, and a GET / request called the second handle only
C10_Witness ==
    /\ Len(regs) = 2
    /\ regs[1].method = "Get" /\ regs[1].path = <<>>
    /\ regs[2].method = "Get" /\ regs[2].path = <<47>>
    /\ conn.handled
    /\ conn.out.invoked = <<2>>
    /\ conn.out.ret = "Ok"

\* ---- C11 (SpecRoute)
\* "<METHOD> <PATH> HTTP/1.1\r\n" written out, METHOD being GET or POST
PatternText(method, path) ==
    (IF method = "Get" THEN <<71, 69, 84>> ELSE <<80, 79, 83, 84>>)
    \o <<32>> \o path \o <<32, 72, 84, 84, 80, 47, 49, 46, 49, 13, 10>>

\* the key a registration is filed under according to the claim
ExpectedKey(r) == PatternText(r.method, IF r.path = <<>> THEN <<47>> ELSE r.path)

\* C11: create_pattern(method, path) is "<METHOD> <PATH> HTTP/1.1\r\n" with the
\* path copied as it is for every non-empty path, and the empty path gives what
\* "/" gives; the keys of the route table are exactly those texts for the
\* registrations made.
C11_PatternForm ==
    /\ \A method \in Methods :
          /\ \A path \in Paths \ {<<>>} :
                create_pattern(method, path) = PatternText(method, path)
          /\ create_pattern(method, <<>>) = create_pattern(method, <<47>>)
          /\ create_pattern(method, <<>>) = PatternText(method, <<47>>)
    /\ DOMAIN handles = {ExpectedKey(regs[i]) : i \in 1..Len(regs)}

\* POST "" and GET "/ HTTP/1.1\r\nx" (no path the HTTP grammar allows) registered
C11_Witness ==
    /\ Len(regs) = 2
    /\ regs[1].method = "Post" /\ regs[1].path = <<>>
    /\ regs[2].method = "Get" /\ Len(regs[2].path) > 1
    /\ DOMAIN handles =
          {<<80, 79, 83, 84, 32, 47, 32, 72, 84, 84, 80, 47, 49, 46, 49, 13, 10>>,
           <<71, 69, 84, 32, 47, 32, 72, 84, 84, 80, 47, 49, 46, 49, 13, 10, 120,
             32, 72, 84, 84, 80, 47, 49, 46, 49, 13, 10>>}

\* ---- C12 (SpecRoute)
\* the response handle_connection serialized: that of the handle called last, or
\* the 404 fallback when none was called
Served ==
    IF conn.out.invoked = <<>>
    THEN [status |-> 404, content |-> [some |-> TRUE, str |-> HTTP_CONTENT_404]]
    ELSE handles[CHOOSE p \in DOMAIN handles :
                     handles[p].id = conn.out.invoked[Len(conn.out.invoked)]].response

\* the texts the claim gives for the responses of the model:
\* "HTTP/1.1 200\r\nContent-Length: 3\r\n\r\nH\xc3\xa9" (2 characters, 3 bytes),
\* "HTTP/1.1 403\r\n\r\n", and the 404 response with its 206 bytes
SerializedAs(resp) ==
    IF resp.status = 200
    THEN <<72, 84, 84, 80, 47, 49, 46, 49, 32, 50, 48, 48, 13, 10,
           67, 111, 110, 116, 101, 110, 116, 45, 76, 101, 110, 103, 116, 104, 58, 32,
           51, 13, 10, 13, 10, 72, 195, 169>>
    ELSE IF resp.status = 403
    THEN <<72, 84, 84, 80, 47, 49, 46, 49, 32, 52, 48, 51, 13, 10, 13, 10>>
    ELSE Expected404

\* "Content-Length" occurs in bytes
HasContentLength(bytes) ==
    \E i \in 1..Len(bytes) :
        /\ i + 13 <= Len(bytes)
        /\ SubSeq(bytes, i, i + 13) =
              <<67, 111, 110, 116, 101, 110, 116, 45, 76, 101, 110, 103, 116, 104>>

\* C12: whatever handle_connection hands to write_all is the serialization the
\* claim describes of the response served: status line, then a Content-Length
\* line counting the bytes of the encoded body and the body when there is content,
\* and no Content-Length line when there is none.
C12_Serialization ==
    (conn.handled /\ conn.out.wrote) =>
        /\ conn.out.written = SerializedAs(Served)
        /\ ~Served.content.some => ~HasContentLength(conn.out.written)

\* a response whose body has fewer characters than bytes was written
C12_Witness ==
    /\ conn.handled
    /\ conn.out.wrote
    /\ conn.out.invoked # <<>>
    /\ Served.content.some
    /\ Len(Served.content.str) < Len(AsBytes(Served.content.str))

\* a response without content was written
C12_WitnessNoContent ==
    /\ conn.handled
    /\ conn.out.wrote
    /\ conn.out.invoked # <<>>
    /\ ~Served.content.some

\* ---- C13 (SpecServer)
\* the connection jobs a live worker holds, received and not yet returned
Held == {thread[w].msg.seq : w \in {v \in DOMAIN thread : thread[v].msg.type = "NewJob"}}

\* C13: once a connection job has logged a failure of handle_connection (read
\* error, invalid input, handler error, write or flush error), the pool still has
\* its four workers, none of them exited while the accept loop runs, every
\* connection submitted is queued, held by a worker or done (none is lost), the
\* loop is left by the shutdown signal only and can accept the next connection,
\* and when listen returns Ok every connection accepted has been handled.
C13_FailureContained ==
    failed =>
        /\ (executor = "None") =>
              /\ Cardinality(DOMAIN thread) = DefaultPoolSize
              /\ (InLoop \/ pc = "stopped") =>
                    \A w \in DOMAIN thread : thread[w].at # "exited"
              /\ 1..jobs = JobsIn(channel) \cup Held \cup completed
              /\ jobs = conns
        /\ InLoop \/ received = 1
        /\ (pc = "accept" /\ conns < MaxConns) => ENABLED Accept("Ok")
        /\ listenResult = "Ok" => completed = 1..conns

\* the job of connection 1 has failed, all four workers wait for messages again,
\* and the accept loop has the next connection in hand
C13_Witness ==
    /\ failed
    /\ executor = "None"
    /\ completed = {1}
    /\ Cardinality({w \in DOMAIN thread : thread[w].at \in {"lock", "recv"}})
          = DefaultPoolSize
    /\ pc = "Ok"
    /\ conns = 1

\* ---- C14 (SpecPool)
\* the Terminate messages in a sequence of messages
Terminates(q) == Cardinality({i \in 1..Len(q) : q[i].type = "Terminate"})
\* the workers that took a Terminate: they have it in hand or have exited
Terminated ==
    {w \in DOMAIN thread :
        thread[w].at = "exited" \/ (thread[w].at = "match" /\ thread[w].msg.type = "Terminate")}

\* C14: drop sends one Terminate per worker and none before; as many Terminates
\* have been received as there are workers that took one, so none takes two and
\* those still in the channel are one for each worker still at work; the joins go
\* through the workers in the order of their ids, and when drop has returned all
\* workers have exited and the channel is empty.
C14_OneTerminateEach ==
    /\ pc \in {"start", "new_err", "ready"} =>
          Terminates(channel) + Terminates(dequeued) = 0
    /\ pc = "drop_send" => Terminates(channel) + Terminates(dequeued) = dropI - 1
    /\ pc \in {"drop_join", "dropped"} =>
          Terminates(channel) + Terminates(dequeued) = Len(workers)
    /\ Terminates(dequeued) = Cardinality(Terminated)
    /\ pc \in {"drop_join", "dropped"} =>
          Terminates(channel) = Len(workers) - Cardinality(Terminated)
    /\ \A i \in 1..Len(workers) : workers[i].id = i - 1
    /\ pc = "drop_join" =>
          \A i \in 1..Len(workers) :
              IF i < dropI
              THEN workers[i].thread = "None" /\ thread[workers[i].id].at = "exited"
              ELSE workers[i].thread = "Some"
    /\ pc = "dropped" =>
          /\ \A w \in DOMAIN thread : thread[w].at = "exited"
          /\ \A i \in 1..Len(workers) : workers[i].thread = "None"
          /\ channel = <<>>

\* worker 1 has taken its Terminate and exited; the join of worker 0, which still
\* runs a job, comes first and waits
C14_Witness ==
    /\ pc = "drop_join"
    /\ dropI = 1
    /\ Len(workers) = 2
    /\ thread[1].at = "exited"
    /\ thread[0].at = "job"

\* ---- C15 (SpecPool)
\* C15: the lock is held by a worker that waits in recv() and by no other: never
\* by a worker that has its message, runs a job or has exited, and by one worker
\* at most; while a worker runs a job, a worker at lock() gets the lock when it is
\* free, and the worker with the lock takes the next message when there is one.
C15_LockOnlyToDequeue ==
    /\ lockHolder # NoWorker =>
          (lockHolder \in DOMAIN thread /\ thread[lockHolder].at = "recv")
    /\ \A w \in DOMAIN thread : thread[w].at = "recv" => lockHolder = w
    /\ Cardinality({w \in DOMAIN thread : thread[w].at = "recv"}) <= 1
    /\ \A v, w \in DOMAIN thread :
          (thread[w].at = "job" /\ thread[v].at = "lock" /\ lockHolder = NoWorker)
              => ENABLED Lock(v)
    /\ \A v, w \in DOMAIN thread :
          (thread[w].at = "job" /\ thread[v].at = "recv" /\ channel # <<>>)
              => ENABLED Recv(v)

\* worker 0 runs job 1 and has not returned; worker 1 took job 2 meanwhile and runs it
C15_Witness ==
    /\ Len(workers) = 2
    /\ thread[0].at = "job" /\ thread[0].msg.seq = 1
    /\ thread[1].at = "job" /\ thread[1].msg.seq = 2
    /\ lockHolder = NoWorker
    /\ completed = {}

\* ---- C16 (SpecRoute)
\* the conditions the claim calls transient
Transient == {"WouldBlock", "Interrupted"}

\* C16: every read attempt that reports would-block or interrupted is followed by
\* a sleep and, while fewer than 16 attempts were made, by another attempt; an
\* attempt that fails with another error ends handle_connection with that error,
\* no handle called and nothing written; no more than 16 attempts are made.
C16_TransientRetried ==
    conn.handled =>
        /\ conn.out.reads <= MaxReads
        /\ \A k \in 1..conn.out.reads :
              LET r == ReadAt(conn.stream, k) IN
              /\ r.kind \in Transient => conn.out.sleeps >= k
              /\ (r.kind \in Transient /\ k < MaxReads) => conn.out.reads > k
              /\ r.kind \notin (Transient \cup {"Ok"}) =>
                    /\ conn.out.ret = r.kind
                    /\ conn.out.reads = k
                    /\ conn.out.invoked = <<>>
                    /\ ~conn.out.wrote

\* ---- C17 (SpecRoute)
\* the read loop ended without an error: a read succeeded or 16 would-blocks passed
ReadLoopDone ==
    conn.handled /\ (conn.stream.wouldBlocks >= MaxReads \/ conn.stream.then.kind = "Ok")
\* the bytes the successful read put into the buffer, none when no read succeeded
BytesRead ==
    IF conn.stream.wouldBlocks < MaxReads /\ conn.stream.then.kind = "Ok"
    THEN conn.stream.then.data
    ELSE <<>>
\* the buffer [0; 1024] with those bytes at its front is all zero
AllZero == \A i \in 1..Len(BytesRead) : BytesRead[i] = 0

\* C17: when the read loop has ended without an error, handle_connection returns
\* InvalidInput exactly when the buffer is all zero, and then calls no handle and
\* writes nothing; a buffer with a non-zero byte goes on to the route matching.
C17_InvalidInputIffAllZero ==
    ReadLoopDone =>
        /\ (conn.out.ret = "InvalidInput") <=> AllZero
        /\ conn.out.ret = "InvalidInput" => (conn.out.invoked = <<>> /\ ~conn.out.wrote)

\* ---- C18 (SpecRoute)
\* the patterns of the table that are prefixes of the bytes read
Matching == {p \in DOMAIN handles : IsPrefix(AsBytes(p), BytesRead)}
\* the first of them in the order of the iteration over the table
FirstMatch == conn.order[CHOOSE i \in 1..Len(conn.order) :
                            /\ conn.order[i] \in Matching
                            /\ \A j \in 1..(i - 1) : conn.order[j] \notin Matching]

\* C18: for a request that begins with a non-zero byte, at most one handle is
\* called; when patterns match it is the handle of the first match of the
\* iteration, and its response, when it returns one, is what is written.
C18_FirstMatchOnly ==
    (ReadLoopDone /\ BytesRead # <<>> /\ BytesRead[1] # 0) =>
        /\ Len(conn.out.invoked) <= 1
        /\ Matching # {} =>
              /\ conn.out.invoked = <<handles[FirstMatch].id>>
              /\ handles[FirstMatch].result = "Ok" =>
                    /\ conn.out.wrote
                    /\ conn.out.written = SerializedAs(handles[FirstMatch].response)

\* ---- C19 (SpecRoute)
\* C19: nothing is written only when the read failed (an error, 16 would-blocks,
\* or a read of no bytes); when a non-empty request was read, a response is
\* written: that of a handle of the table, or the 404 fallback.
C19_ResponseUnlessReadFails ==
    conn.handled =>
        /\ ~conn.out.wrote => ~RequestRead
        /\ RequestRead =>
              /\ conn.out.wrote
              /\ \/ conn.out.written = Expected404
                 \/ \E p \in DOMAIN handles :
                       /\ handles[p].result = "Ok"
                       /\ conn.out.written = SerializedAs(handles[p].response)

\* ---- C20 (SpecServer)
\* the shutdown channel was configured and the accept loop has set it to None
Disabled == configured /\ shutdown = "None"

\* C20: the error of the shutdown channel (its Sender dropped with nothing left to
\* receive) is logged once at most, and it has been logged exactly when the loop
\* has disabled the channel; from then on the accept loop is never left, nothing
\* is received from the channel, and connections are accepted as before.
C20_ChannelErrorDisables ==
    /\ channelErrors <= 1
    /\ (channelErrors = 1) <=> Disabled
    /\ Disabled =>
          /\ InLoop
          /\ ~LoopLeft
          /\ received = 0
          /\ ~txAlive /\ signal = 0
          /\ (pc = "accept" /\ conns < MaxConns) => ENABLED Accept("Ok")
          /\ pc = "WouldBlock" => ENABLED ArmWouldBlock

\* the channel was disabled in the would-block arm, and the loop has gone on to
\* accept a connection
C20_Witness ==
    /\ Disabled
    /\ channelErrors = 1
    /\ pc = "Ok"
    /\ conns = 1

\* ---- C21 (SpecServer)
\* the step of the listen thread out of the arm of a hard accept error
HardErrorStep == pc = "Err" /\ pc' # pc

\* C21: the arm of a hard accept error submits no job (no message is sent, no
\* closure run, no connection counted), leaves the shutdown channel alone (nothing
\* taken from it, nothing logged about it, it stays configured as it was) and
\* goes back to the head of the accept loop, where a connection can be accepted.
C21_HardErrorGoesOn ==
    /\ [][HardErrorStep =>
             /\ pc' = "accept"
             /\ UNCHANGED <<jobs, sent, channel, conns, runs, completed>>
             /\ UNCHANGED <<shutdown, signal, received, channelErrors, stopConns>>
             /\ listenResult' = "none"]_vars
    /\ [](pc = "Err" => ENABLED ArmErr)
    /\ [](pc = "accept" /\ conns < MaxConns => ENABLED Accept("Ok"))
    /\ [](pc = "Ok" => ENABLED ArmOk)

\* a hard accept error after a connection, with a shutdown signal waiting in the
\* configured channel
C21_Witness ==
    /\ pc = "Err"
    /\ conns >= 1
    /\ shutdown = "Some"
    /\ signal > 0

\* ---- C24 (SpecPool)
\* no NewJob comes after a Terminate in the sequence of messages q
JobsFirst(q) ==
    \A i, j \in 1..Len(q) : (i < j /\ q[i].type = "Terminate") => q[j].type = "Terminate"

\* C24: Terminate messages stand behind every job in the queue and are received
\* after every job; once a worker has received a Terminate no job is left in the
\* queue; and when drop has returned, every job submitted (those still queued when
\* drop began included) was received, run once and has returned.
C24_QueuedJobsRun ==
    /\ JobsFirst(channel)
    /\ JobsFirst(dequeued)
    /\ Terminates(dequeued) > 0 => JobsIn(channel) = {}
    /\ pc = "dropped" =>
          /\ JobsIn(channel) = {}
          /\ {dequeued[i].seq : i \in {k \in 1..Len(dequeued) : dequeued[k].type = "NewJob"}}
                = 1..jobs
          /\ DOMAIN runs = 1..jobs
          /\ completed = 1..jobs

\* drop has returned, and when it began jobs were still queued, more than one
\* worker was there to receive a Terminate and every job submitted was queued or
\* being executed
C24_Witness ==
    /\ pc = "dropped"
    /\ atDrop.queued
    /\ jobs = MaxJobs
    /\ Len(workers) >= 2
    /\ completed = 1..jobs

\* ---- C25 (SpecRoute)
\* every one of the 16 read attempts on the stream of the connection would block
AllWouldBlock == conn.handled /\ conn.stream.wouldBlocks >= MaxReads

\* C25: a run of handle_connection ends after at most 16 read attempts and at
\* most 16 sleeps, whatever the stream and the table; when all 16 attempts would block
\* it has made exactly 16 (the data a 17th would have read is never seen), the
\* buffer is all zero, it returns InvalidInput, and no handle was called and nothing
\* written.
C25_SixteenAttempts ==
    /\ conn.handled =>
          /\ conn.out.reads \in 1..MaxReads
          /\ conn.out.sleeps \in 0..MaxReads
    /\ AllWouldBlock =>
          /\ conn.out.reads = MaxReads
          /\ conn.out.sleeps = MaxReads
          /\ ReadLoop(conn.stream, 1, EmptyBuffer).buffer = EmptyBuffer
          /\ conn.out.ret = "InvalidInput"
          /\ conn.out.invoked = <<>>
          /\ ~conn.out.wrote
          /\ conn.out.written = <<>>

\* 16 would-blocks on a stream whose 17th read would have returned a request for
\* a registered route
C25_Witness ==
    /\ AllWouldBlock
    /\ conn.stream.then.kind = "Ok"
    /\ \E p \in DOMAIN handles : IsPrefix(AsBytes(p), conn.stream.then.data)

\* ---- C23 (SpecPoolFair)
\* drop has returned: every worker took a Terminate and left its loop, every handle
\* was joined, the lock is free
DropDone ==
    /\ pc = "dropped"
    /\ \A w \in DOMAIN thread : thread[w].at = "exited"
    /\ Cardinality(Terminated) = Len(workers)
    /\ \A i \in 1..Len(workers) : workers[i].thread = "None"
    /\ lockHolder = NoWorker

\* C23: under fair scheduling, once drop has begun (whatever the workers are
\* doing: at lock(), in recv() with the lock, executing a job) it returns, every
\* worker having received a Terminate and exited and every join having returned.
C23_TeardownTerminates == (pc = "drop_send") ~> DropDone

\* drop has returned for a pool of the largest size that began its drop with a job
\* being executed and another queued
C23_Witness ==
    /\ DropDone
    /\ Len(workers) = MaxSize
    /\ atDrop.running
    /\ atDrop.queued

\* ---- C22 (SpecMain)
\* a signal waits in the configured shutdown channel while the accept loop runs
Signalled == InLoop /\ shutdown = "Some" /\ signal > 0

\* the claim as stated: C22: with a channel configured and a signal sent, listen
\* returns Ok in the end, connection jobs returning being the only condition.
C22_SignalStops == Signalled ~> (listenResult = "Ok")

\* the step of the listen thread out of the would-block arm
WouldBlockStep == pc = "WouldBlock" /\ pc' # pc

\* C22, amended: if the accept loop, while it runs, comes to a would-block accept
\* result again and again, a signal sent on the configured channel leads to listen
\* returning Ok with the loop left and every connection job done; the would-block
\* arm can always take its step, takes the signal when one waits in the configured
\* channel, and a signal is taken by that arm only and with the loop left at once.
C22_SignalStopsWhenPolled ==
    /\ ([]<>(~InLoop \/ pc = "WouldBlock")) =>
          (Signalled ~> (listenResult = "Ok" /\ LoopLeft /\ received = 1
                            /\ (executor = "None" => completed = 1..jobs)))
    /\ [](pc = "WouldBlock" => ENABLED ArmWouldBlock)
    /\ [][(WouldBlockStep /\ Signalled) =>
             (signal' = signal - 1 /\ received' = received + 1 /\ pc' = "stopped")]_vars
    /\ [][(signal' < signal \/ received' # received) =>
             (WouldBlockStep /\ pc' = "stopped")]_vars

\* listen has returned Ok after the signal, with the default pool, and a connection
\* job was being executed when the pool's drop began
C22_Witness ==
    /\ listenResult = "Ok"
    /\ received = 1
    /\ executor = "None"
    /\ conns = MaxMainConns
    /\ atDrop.running

====
